---- MODULE Spec2Model ----
(***************************************************************************)
(* A model of the tool-chain orchestrator of talk2mcp.py:                  *)
(* process_user_request (session life cycle, planner call, plan dispatch)  *)
(* and execute_tool_chain (plan parsing, reference resolution, sequential  *)
(* remote calls).                                                          *)
(*                                                                         *)
(* Python strings are modelled as sequences of one-character strings, so   *)
(* that strip, startswith, split, replace and the STEP regular expression  *)
(* are computed character by character, as the interpreter does.           *)
(***************************************************************************)
EXTENDS Integers, Sequences, FiniteSets, TLC

(***************************************************************************)
(* Bounds of the model.                                                    *)
(***************************************************************************)
\* Greatest number of lines of a line-oriented plan, and of entries of the
\* steps array of a structured plan, that the planner returns.
MaxSteps == 2

(***************************************************************************)
(* Characters and the str methods the code uses.                           *)
(***************************************************************************)
Digit == {"0", "1", "2", "3", "4", "5", "6", "7", "8", "9"}

Lower ==
    {"a", "b", "c", "d", "e", "f", "g", "h", "i", "j", "k", "l", "m",
     "n", "o", "p", "q", "r", "s", "t", "u", "v", "w", "x", "y", "z"}

Upper ==
    {"A", "B", "C", "D", "E", "F", "G", "H", "I", "J", "K", "L", "M",
     "N", "O", "P", "Q", "R", "S", "T", "U", "V", "W", "X", "Y", "Z"}

\* \w of the regular expression (ASCII part).
WordChar == Lower \cup Upper \cup Digit \cup {"_"}

\* \s of the regular expression, and what str.strip() removes (ASCII part).
Space == {" ", "\t", "\n", "\r"}

\* str.startswith(prefix)
StartsWith(s, prefix) ==
    /\ Len(prefix) <= Len(s)
    /\ SubSeq(s, 1, Len(prefix)) = prefix

\* s[n:]
Drop(s, n) == SubSeq(s, n + 1, Len(s))

RECURSIVE LStrip(_)
LStrip(s) ==
    IF s # <<>> /\ Head(s) \in Space THEN LStrip(Tail(s)) ELSE s

RECURSIVE RStrip(_)
RStrip(s) ==
    IF s # <<>> /\ s[Len(s)] \in Space
    THEN RStrip(SubSeq(s, 1, Len(s) - 1))
    ELSE s

\* str.strip()
Strip(s) == RStrip(LStrip(s))

\* str.split(sep) for a one-character separator: always at least one piece.
RECURSIVE Split(_, _)
Split(s, sep) ==
    LET hits == {i \in 1..Len(s) : s[i] = sep}
    IN  IF hits = {} THEN <<s>>
        ELSE LET i == CHOOSE h \in hits : \A g \in hits : h <= g
             IN  <<SubSeq(s, 1, i - 1)>> \o Split(Drop(s, i), sep)

\* sep.join(parts)
RECURSIVE Join(_, _)
Join(parts, sep) ==
    IF parts = <<>> THEN <<>>
    ELSE IF Len(parts) = 1 THEN parts[1]
    ELSE parts[1] \o sep \o Join(Tail(parts), sep)

\* str.replace(old, ""): every non-overlapping occurrence, left to right.
RECURSIVE RemoveAll(_, _)
RemoveAll(s, old) ==
    IF s = <<>> THEN <<>>
    ELSE IF StartsWith(s, old) THEN RemoveAll(Drop(s, Len(old)), old)
    ELSE <<Head(s)>> \o RemoveAll(Tail(s), old)

\* int(digits) for a non-empty run of decimal digits.
DigitValue(c) ==
    CASE c = "0" -> 0 [] c = "1" -> 1 [] c = "2" -> 2 [] c = "3" -> 3
      [] c = "4" -> 4 [] c = "5" -> 5 [] c = "6" -> 6 [] c = "7" -> 7
      [] c = "8" -> 8 [] c = "9" -> 9

RECURSIVE ToInt(_)
ToInt(digits) ==
    IF digits = <<>> THEN 0
    ELSE 10 * ToInt(SubSeq(digits, 1, Len(digits) - 1))
         + DigitValue(digits[Len(digits)])

\* str(n) of a natural number, as an f-string renders an int.
DigitChar(d) ==
    CASE d = 0 -> "0" [] d = 1 -> "1" [] d = 2 -> "2" [] d = 3 -> "3"
      [] d = 4 -> "4" [] d = 5 -> "5" [] d = 6 -> "6" [] d = 7 -> "7"
      [] d = 8 -> "8" [] d = 9 -> "9"

RECURSIVE ToStr(_)
ToStr(n) ==
    IF n < 10 THEN <<DigitChar(n)>>
    ELSE ToStr(n \div 10) \o <<DigitChar(n % 10)>>

(***************************************************************************)
(* The regular expression of execute_tool_chain,                           *)
(*   STEP\s+(\d+):\s+Use\s+(\w+)\s+with\s+input:\s+(.+)                    *)
(* applied with re.search to one line.                                     *)
(***************************************************************************)
S_STEP == <<"S","T","E","P">>
S_Use == <<"U","s","e">>
S_with == <<"w","i","t","h">>
S_input == <<"i","n","p","u","t",":">>
S_colon == <<":">>

\* The index after the longest run of characters of class starting at i.
RECURSIVE RunEnd(_, _, _)
RunEnd(s, i, class) ==
    IF i <= Len(s) /\ s[i] \in class THEN RunEnd(s, i + 1, class) ELSE i

\* Whether the literal lit stands at index i of s.
LitAt(s, i, lit) ==
    /\ i + Len(lit) - 1 <= Len(s)
    /\ SubSeq(s, i, i + Len(lit) - 1) = lit

NoMatch == [matched |-> FALSE, num |-> <<>>, tool |-> <<>>, input |-> <<>>]

\* The match of the expression anchored at index p, or NoMatch.  Each
\* quantifier is greedy; only the last \s+ can give a character back, to
\* let (.+) match when nothing but whitespace follows "input:".
MatchAt(s, p) ==
    LET n1 == p + Len(S_STEP)
        n2 == RunEnd(s, n1, Space)
        n3 == RunEnd(s, n2, Digit)
        u1 == RunEnd(s, n3 + 1, Space)
        u2 == u1 + Len(S_Use)
        t1 == RunEnd(s, u2, Space)
        t2 == RunEnd(s, t1, WordChar)
        w1 == RunEnd(s, t2, Space)
        w2 == w1 + Len(S_with)
        i1 == RunEnd(s, w2, Space)
        i2 == i1 + Len(S_input)
        r1 == RunEnd(s, i2, Space)
        head == /\ LitAt(s, p, S_STEP)
                /\ n2 > n1 /\ n3 > n2
                /\ LitAt(s, n3, S_colon)
                /\ u1 > n3 + 1
                /\ LitAt(s, u1, S_Use)
                /\ t1 > u2 /\ t2 > t1
                /\ w1 > t2
                /\ LitAt(s, w1, S_with)
                /\ i1 > w2
                /\ LitAt(s, i1, S_input)
                /\ r1 > i2
    IN  IF ~head THEN NoMatch
        ELSE IF r1 <= Len(s)
        THEN [matched |-> TRUE, num |-> SubSeq(s, n2, n3 - 1),
              tool |-> SubSeq(s, t1, t2 - 1), input |-> SubSeq(s, r1, Len(s))]
        ELSE IF r1 - i2 >= 2
        THEN [matched |-> TRUE, num |-> SubSeq(s, n2, n3 - 1),
              tool |-> SubSeq(s, t1, t2 - 1), input |-> SubSeq(s, Len(s), Len(s))]
        ELSE NoMatch

\* re.search(pattern, line): the leftmost match.
ReSearch(line) ==
    LET starts == {p \in 1..Len(line) : MatchAt(line, p).matched}
    IN  IF starts = {} THEN NoMatch
        ELSE MatchAt(line, CHOOSE p \in starts : \A q \in starts : p <= q)

(***************************************************************************)
(* String literals of the source.                                          *)
(***************************************************************************)
S_RESULT == <<"R","E","S","U","L","T","_">>

S_NO_TOOLS_NEEDED ==
    <<"N","O","_","T","O","O","L","S","_","N","E","E","D","E","D",":">>

\* f"STEP {step['step_number']}: Use {step['tool_name']} with input: {step['input']}"
S_StepPrefix == <<"S","T","E","P"," ">>

S_UseInfix == <<":"," ","U","s","e"," ">>

S_InputInfix == <<" ","w","i","t","h"," ","i","n","p","u","t",":"," ">>

S_Newline == <<"\n">>

S_NoToolSteps ==
    <<"N","o"," ","v","a","l","i","d"," ","t","o","o","l"," ","s","t","e",
      "p","s"," ","f","o","u","n","d"," ","i","n"," ","t","h","e"," ","p",
      "l","a","n",".">>

S_NoLlmSteps ==
    <<"N","o"," ","v","a","l","i","d"," ","s","t","e","p","s"," ","f","o",
      "u","n","d"," ","i","n"," ","t","h","e"," ","L","L","M"," ","r","e",
      "s","p","o","n","s","e",".">>

S_ReferencedResult ==
    <<"E","r","r","o","r",":"," ","R","e","f","e","r","e","n","c","e","d",
      " ","r","e","s","u","l","t"," ">>

S_NotFound == <<" ","n","o","t"," ","f","o","u","n","d">>

S_ErrorExecuting ==
    <<"E","r","r","o","r"," ","e","x","e","c","u","t","i","n","g"," ">>

S_ColonSpace == <<":"," ">>

S_Error == <<"E","r","r","o","r",":"," ">>

S_Cancelled ==
    <<"E","r","r","o","r",":"," ","M","C","P"," ","c","l","i","e","n","t",
      " ","s","e","s","s","i","o","n"," ","w","a","s"," ","c","a","n","c",
      "e","l","l","e","d">>

S_TimedOut ==
    <<"E","r","r","o","r",":"," ","M","C","P"," ","c","l","i","e","n","t",
      " ","s","e","s","s","i","o","n"," ","t","i","m","e","d"," ","o","u",
      "t">>

S_SessionTaskGroup ==
    <<"E","r","r","o","r"," ","i","n"," ","M","C","P"," ","c","l","i","e",
      "n","t"," ","s","e","s","s","i","o","n",":"," ","T","a","s","k","G",
      "r","o","u","p"," ","e","r","r","o","r"," ","-"," ","c","h","e","c",
      "k"," ","i","f"," ","m","c","p","_","s","e","r","v","e","r",".","p",
      "y"," ","i","s"," ","f","u","n","c","t","i","o","n","i","n","g"," ",
      "c","o","r","r","e","c","t","l","y">>

S_SessionError ==
    <<"E","r","r","o","r"," ","i","n"," ","M","C","P"," ","c","l","i","e",
      "n","t"," ","s","e","s","s","i","o","n",":"," ">>

S_ConnectTaskGroup ==
    <<"E","r","r","o","r"," ","c","o","n","n","e","c","t","i","n","g"," ",
      "t","o"," ","M","C","P"," ","s","e","r","v","e","r",":"," ","T","a",
      "s","k","G","r","o","u","p"," ","e","r","r","o","r"," ","-"," ","p",
      "l","e","a","s","e"," ","c","h","e","c","k"," ","i","f"," ","m","c",
      "p","_","s","e","r","v","e","r",".","p","y"," ","e","x","i","s","t",
      "s"," ","a","n","d"," ","i","s"," ","f","u","n","c","t","i","o","n",
      "i","n","g"," ","c","o","r","r","e","c","t","l","y">>

S_ConnectError ==
    <<"E","r","r","o","r"," ","c","o","n","n","e","c","t","i","n","g"," ",
      "t","o"," ","M","C","P"," ","s","e","r","v","e","r",":"," ">>

S_Quote == <<"'">>

S_step_number == <<"s","t","e","p","_","n","u","m","b","e","r">>

S_tool_name == <<"t","o","o","l","_","n","a","m","e">>

S_input_key == <<"i","n","p","u","t">>

(***************************************************************************)
(* What str(e) gives for the exceptions of the model.                      *)
(***************************************************************************)
\* result.content[0] of an empty content list
S_IndexError ==
    <<"l","i","s","t"," ","i","n","d","e","x"," ","o","u","t"," ","o","f",
      " ","r","a","n","g","e">>

\* asyncio.exceptions.TaskGroupError, a name the module does not define
S_AttributeError ==
    <<"m","o","d","u","l","e"," ","'","a","s","y","n","c","i","o",".","e",
      "x","c","e","p","t","i","o","n","s","'"," ","h","a","s"," ","n","o",
      " ","a","t","t","r","i","b","u","t","e"," ","'","T","a","s","k","G",
      "r","o","u","p","E","r","r","o","r","'">>

\* the message of an error raised by the session or the transport
S_ConnectionClosed ==
    <<"C","o","n","n","e","c","t","i","o","n"," ","c","l","o","s","e","d">>

\* the message of an error raised by the planner call
S_PlannerDown == <<"q","u","o","t","a">>

(***************************************************************************)
(* JSON.  Tool outputs that are JSON documents are the renderings of the   *)
(* values of JsonDocs; json.loads is the inverse of the rendering on them  *)
(* and raises JSONDecodeError on every other text of the model.            *)
(***************************************************************************)
JStr(s) == [t |-> "str", s |-> s, n |-> 0, items |-> <<>>]
JNum(n) == [t |-> "num", s |-> <<>>, n |-> n, items |-> <<>>]
JList(items) == [t |-> "list", s |-> <<>>, n |-> 0, items |-> items]
\* An object: its members, <<key, value>> pairs, in document order.
JObj(members) == [t |-> "obj", s |-> <<>>, n |-> 0, items |-> members]

K_content == <<"c","o","n","t","e","n","t">>
K_text == <<"t","e","x","t">>
K_type == <<"t","y","p","e">>

T_ba == <<"b","a">>

\* {"content":[{"text":"ba"}]}
DocEnvelope == JObj(<< <<K_content, JList(<<JObj(<< <<K_text, JStr(T_ba)>> >>)>>)>> >>)

\* {"content":[{"type":"t"},{"text":"ba"}]}
DocSecondText ==
    JObj(<< <<K_content, JList(<<JObj(<< <<K_type, JStr(<<"t">>)>> >>),
                                 JObj(<< <<K_text, JStr(T_ba)>> >>)>>)>> >>)

\* {"content":"ba"}
DocContentNotList == JObj(<< <<K_content, JStr(T_ba)>> >>)

\* {"content":[7,{"text":"ba"}]}
DocNumberItem ==
    JObj(<< <<K_content, JList(<<JNum(7), JObj(<< <<K_text, JStr(T_ba)>> >>)>>)>> >>)

\* {"text":"ba"}
DocNoContent == JObj(<< <<K_text, JStr(T_ba)>> >>)

\* {"content":[{"type":"t"}]}
DocNoText == JObj(<< <<K_content, JList(<<JObj(<< <<K_type, JStr(<<"t">>)>> >>)>>)>> >>)

JsonDocs ==
    {DocEnvelope, DocSecondText, DocContentNotList, DocNumberItem,
     DocNoContent, DocNoText}

RECURSIVE Dumps(_)
Dumps(v) ==
    LET RECURSIVE Items(_)
        Items(xs) ==
            IF xs = <<>> THEN <<>>
            ELSE Dumps(xs[1])
                 \o (IF Len(xs) > 1 THEN <<",">> ELSE <<>>) \o Items(Tail(xs))
        RECURSIVE Members(_)
        Members(ms) ==
            IF ms = <<>> THEN <<>>
            ELSE <<"\"">> \o ms[1][1] \o <<"\"", ":">> \o Dumps(ms[1][2])
                 \o (IF Len(ms) > 1 THEN <<",">> ELSE <<>>) \o Members(Tail(ms))
    IN  CASE v.t = "str" -> <<"\"">> \o v.s \o <<"\"">>
          [] v.t = "num" -> ToStr(v.n)
          [] v.t = "list" -> <<"[">> \o Items(v.items) \o <<"]">>
          [] v.t = "obj" -> <<"{">> \o Members(v.items) \o <<"}">>

\* json.loads(text): [ok |-> TRUE, value |-> v], or ok = FALSE for a
\* JSONDecodeError.
JsonLoads(text) ==
    LET hits == {d \in JsonDocs : Dumps(d) = text}
    IN  IF hits = {} THEN [ok |-> FALSE, value |-> JNum(0)]
        ELSE [ok |-> TRUE, value |-> CHOOSE d \in hits : TRUE]

\* key in obj, obj[key] for a dict
HasKey(obj, key) == \E i \in 1..Len(obj.items) : obj.items[i][1] = key
GetKey(obj, key) ==
    obj.items[CHOOSE i \in 1..Len(obj.items) : obj.items[i][1] = key][2]

\* sub in s for two strings
Contains(s, sub) == \E i \in 1..(Len(s) + 1) : LitAt(s, i, sub)

(***************************************************************************)
(* execute_tool_chain: parsing the plan (lines 62-77).                     *)
(***************************************************************************)
\* Faulty variant of ParseLine: a line that is no STEP line is run as a step.
ParseLine_AnyLine(line) ==
    IF ~StartsWith(line, S_STEP)
    THEN <<[step |-> 1, tool |-> <<"r","e","v">>, input |-> line]>>
    ELSE LET m == ReSearch(line)
         IN  IF m.matched
             THEN <<[step |-> ToInt(m.num), tool |-> m.tool,
                     input |-> Strip(m.input)]>>
             ELSE <<>>

\* The step of one line, as a sequence of zero or one steps.
ParseLine(line) ==
    IF ~StartsWith(line, S_STEP) THEN <<>>
    ELSE LET m == ReSearch(line)
         IN  IF m.matched
             THEN <<[step |-> ToInt(m.num), tool |-> m.tool,
                     input |-> Strip(m.input)]>>
             ELSE <<>>

RECURSIVE ParseLines(_)
ParseLines(lines) ==
    IF lines = <<>> THEN <<>>
    ELSE ParseLine(Head(lines)) \o ParseLines(Tail(lines))

\* steps, as built by the loop over tool_plan.strip().split('\n')
ParsePlan(tool_plan) == ParseLines(Split(Strip(tool_plan), "\n"))

\* Faulty variant of SortSteps: the steps are run in the order of the lines.
SortSteps_InputOrder(steps) == steps

\* sorted(steps, key=lambda x: x["step"]): ascending and stable.
RECURSIVE SortSteps(_)
SortSteps(steps) ==
    IF steps = <<>> THEN <<>>
    ELSE LET i == CHOOSE k \in 1..Len(steps) :
                     /\ \A j \in 1..Len(steps) : steps[k].step <= steps[j].step
                     /\ \A j \in 1..(k - 1) : steps[j].step # steps[k].step
         IN  <<steps[i]>>
             \o SortSteps(SubSeq(steps, 1, i - 1) \o SubSeq(steps, i + 1, Len(steps)))

(***************************************************************************)
(* execute_tool_chain: resolving a step's input (lines 88-112).            *)
(***************************************************************************)
\* f"RESULT_{step_num}", the key a step's output is stored under
ResultKey(step_num) == S_RESULT \o ToStr(step_num)

\* Faulty variant of ExtractText: only content[0] is looked at.
ExtractText_FirstOnly(items, input_text) ==
    IF items = <<>> THEN input_text
    ELSE IF Head(items).t = "obj" /\ HasKey(Head(items), K_text)
    THEN GetKey(Head(items), K_text).s
    ELSE input_text

\* The loop over result_json["content"] (lines 102-106): the text of the
\* first item that has one.  A TypeError on the way (an item that is no
\* dict) is caught at line 107 and leaves input_text as it was.
RECURSIVE ExtractText(_, _)
ExtractText(items, input_text) ==
    IF items = <<>> THEN input_text
    ELSE LET item == Head(items)
         IN  CASE item.t = "obj" ->
                    IF HasKey(item, K_text)
                    THEN LET found == GetKey(item, K_text)
                         IN  IF found.t = "str" THEN found.s ELSE Dumps(found)
                    ELSE ExtractText(Tail(items), input_text)
               [] item.t = "str" ->
                    IF Contains(item.s, K_text)
                    THEN input_text
                    ELSE ExtractText(Tail(items), input_text)
               [] item.t = "list" ->
                    IF \E i \in 1..Len(item.items) : item.items[i] = JStr(K_text)
                    THEN input_text
                    ELSE ExtractText(Tail(items), input_text)
               [] OTHER -> input_text

\* Lines 95-109: the text sent for a stored result.
Unwrap(input_text) ==
    IF ~StartsWith(Strip(input_text), <<"{">>) THEN input_text
    ELSE LET parsed == JsonLoads(input_text)
         IN  IF ~parsed.ok THEN input_text
             ELSE LET result_json == parsed.value
                  IN  IF /\ HasKey(result_json, K_content)
                         /\ GetKey(result_json, K_content).t = "list"
                      THEN ExtractText(GetKey(result_json, K_content).items,
                                       input_text)
                      ELSE input_text

\* Faulty variant of Resolve: a reference that is not found is sent as it stands.
Resolve_PassThrough(input_text, results) ==
    IF StartsWith(input_text, S_RESULT) /\ input_text \in DOMAIN results
    THEN [found |-> TRUE, text |-> Unwrap(results[input_text])]
    ELSE [found |-> TRUE, text |-> input_text]

\* Lines 88-112 for one step: the call's text argument, or the error the
\* chain returns.
Resolve(input_text, results) ==
    IF StartsWith(input_text, S_RESULT)
    THEN IF input_text \in DOMAIN results
         THEN [found |-> TRUE, text |-> Unwrap(results[input_text])]
         ELSE [found |-> FALSE,
               text |-> S_ReferencedResult \o input_text \o S_NotFound]
    ELSE [found |-> TRUE, text |-> input_text]

(***************************************************************************)
(* The environment: what the planner and the tool host may answer.         *)
(***************************************************************************)
\* Step numerals, tool names and inputs of the lines of a line-oriented plan.
Numerals == {<<"1">>, <<"2">>}

ToolNames == {<<"r","e","v">>, <<"k","e","y">>}

T_ab == <<"a","b">>

\* An input that begins with RESULT_ and is no RESULT_<digits> token.
T_RESULT_x == <<"R","E","S","U","L","T","_","x">>

InputTexts ==
    {T_ab,
     <<"R","E","S","U","L","T","_","1">>,
     <<"R","E","S","U","L","T","_","2">>,
     <<"R","E","S","U","L","T","_","0","1">>,
     T_RESULT_x}

\* STEP <int>: Use <identifier> with input: <rest-of-line>
StepLine(num, tool, input) ==
    S_StepPrefix \o num \o S_UseInfix \o tool \o S_InputInfix \o input

\* The lines of the STEP grammar the planner may write: either tool with a
\* plain input, and one tool with each of the inputs.
GrammarLines ==
    {StepLine(n, t, T_ab) : n \in Numerals, t \in ToolNames}
    \cup {StepLine(n, <<"k","e","y">>, i) : n \in Numerals, i \in InputTexts}

\* Lines that are not of the grammar.
OtherLines == {<<"P","l","a","n",":">>}

PlanLines == GrammarLines \cup OtherLines

PlanTexts ==
    {Join(lines, S_Newline) :
        lines \in UNION {[1..n -> PlanLines] : n \in 0..MaxSteps}}

T_hi == <<"h","i">>

\* Planner outputs that use the NO_TOOLS_NEEDED: escape.
EscapeTexts ==
    {S_NO_TOOLS_NEEDED \o <<" ">> \o T_hi,
     <<" ">> \o S_NO_TOOLS_NEEDED \o <<" ">> \o T_hi \o <<" ">>
        \o S_NO_TOOLS_NEEDED \o S_Newline}

\* A planner response that is no JSON document: json.loads raises on it.
TextResponse(text) ==
    [format |-> "text", text |-> text, keys |-> {},
     fallback_response |-> <<>>, steps |-> <<>>]

\* A planner response that is a JSON object with the members named by keys.
JsonResponse(keys, fallback_response, steps) ==
    [format |-> "json", text |-> <<>>, keys |-> keys,
     fallback_response |-> fallback_response, steps |-> steps]

NoResponse == TextResponse(<<"<", "n", "o", "n", "e", ">">>)

StepNumbers == {1, 2}

JsonInputs == {T_ab, <<"R","E","S","U","L","T","_","1">>}

\* A well-formed element of the steps array whose input is the empty string.
EmptyInputEntry ==
    [keys |-> {"step_number", "tool_name", "input"},
     step_number |-> 1, tool_name |-> <<"r","e","v">>, input |-> <<>>]

\* An element of the steps array: an object with the members named by keys.
StepEntries ==
    {[keys |-> {"step_number", "tool_name", "input"},
      step_number |-> n, tool_name |-> t, input |-> T_ab] :
        n \in StepNumbers, t \in ToolNames}
    \cup
    {[keys |-> {"step_number", "tool_name", "input"},
      step_number |-> n, tool_name |-> <<"k","e","y">>, input |-> i] :
        n \in StepNumbers, i \in JsonInputs}
    \cup
    {[keys |-> {"step_number", "input"},
      step_number |-> 1, tool_name |-> <<>>, input |-> T_ab],
     EmptyInputEntry}

\* A well-formed element of the steps array whose input holds a line break
\* followed by a line of the STEP grammar.
LineBreakEntry ==
    [keys |-> {"step_number", "tool_name", "input"},
     step_number |-> 1, tool_name |-> <<"k","e","y">>,
     input |-> T_ab \o S_Newline
               \o StepLine(<<"2">>, <<"r","e","v">>, T_ab)]

StepArrays == UNION {[1..n -> StepEntries] : n \in 0..MaxSteps}

JsonResponses ==
    {JsonResponse({"steps"}, <<>>, s) : s \in StepArrays}
    \cup {JsonResponse({"steps", "fallback_response"}, f, s) :
            f \in {<<>>, T_hi}, s \in StepArrays}
    \cup {JsonResponse({"fallback_response"}, f, <<>>) : f \in {<<>>, T_hi}}
    \cup {JsonResponse({}, <<>>, <<>>)}
    \cup {JsonResponse({"steps"}, <<>>, <<LineBreakEntry>>)}

PlannerResponses ==
    {TextResponse(t) : t \in PlanTexts \cup EscapeTexts} \cup JsonResponses

\* f"Error creating Keynote slide: {str(e)}" (mcp_server.py, line 86): the
\* text a tool answers with when it has failed.
S_ErrorCreating ==
    <<"E","r","r","o","r"," ","c","r","e","a","t","i","n","g"," ",
      "K","e","y","n","o","t","e"," ","s","l","i","d","e",":"," ">>

T_ToolError == S_ErrorCreating \o <<"x">>

\* result.content[0].text of a call that answers.
ToolOutputs ==
    {T_ba, <<"{","b","a">>, T_ToolError} \cup {Dumps(d) : d \in JsonDocs}

\* Exceptions an awaited session call may raise.
AwaitFailures == {"Exception", "TimeoutError", "CancelledError"}

\* Exception classes caught by "except Exception".
IsException(exc) == exc \in {"Exception", "TimeoutError", "KeyError",
                             "IndexError", "AttributeError"}

\* str(e)
ExcText(exc) ==
    CASE exc = "IndexError" -> S_IndexError
      [] exc = "AttributeError" -> S_AttributeError
      [] exc = "CancelledError" -> <<>>
      [] exc = "TimeoutError" -> <<>>
      [] OTHER -> S_ConnectionClosed

\* The names asyncio.exceptions defines.
AsyncioExceptions ==
    {"BrokenBarrierError", "CancelledError", "IncompleteReadError",
     "InvalidStateError", "LimitOverrunError", "SendfileNotAvailableError",
     "TimeoutError"}

(***************************************************************************)
(* The state of one process_user_request call.                             *)
(***************************************************************************)
VARIABLES
    pc,            \* where the call stands
    channel,       \* the stdio_client context: "none", "open", "closed"
    session,       \* the ClientSession context: "none", "open", "closed"
    response,      \* the planner's response
    steps,         \* sorted(steps) of execute_tool_chain
    idx,           \* the position in steps of the step being run
    results,       \* results of execute_tool_chain: key -> stored output
    final_result,  \* final_result of execute_tool_chain
    calls,         \* the call_tool requests the tool host has received
    pending,       \* the value being returned or the exception in flight
    peer           \* the locals of a second request, while it is suspended

vars ==
    <<pc, channel, session, response, steps, idx, results, final_result,
      calls, pending, peer>>

None == <<"None">>

Nothing == [kind |-> "none", exc |-> "", value |-> <<>>]
Returning(value) == [kind |-> "return", exc |-> "", value |-> value]
Raising(exc) == [kind |-> "raise", exc |-> exc, value |-> ExcText(exc)]

\* The locals of a process_user_request call that has not started.
NotStarted ==
    [pc |-> "start", channel |-> "none", session |-> "none",
     response |-> NoResponse, steps |-> <<>>, idx |-> 0, results |-> <<>>,
     final_result |-> None, calls |-> <<>>, pending |-> Nothing]

Init ==
    /\ pc = "start"
    /\ channel = "none"
    /\ session = "none"
    /\ response = NoResponse
    /\ steps = <<>>
    /\ idx = 0
    /\ results = <<>>
    /\ final_result = None
    /\ calls = <<>>
    /\ pending = Nothing
    /\ peer = NotStarted

chain_vars == <<steps, idx, results, final_result, calls>>

(***************************************************************************)
(* process_user_request: opening the channel and the session.              *)
(***************************************************************************)
\* async with stdio_client(server_params) (line 143): the server process
\* is started, or the attempt raises.
StdioClient ==
    /\ pc = "start"
    /\ \E ok \in BOOLEAN :
          IF ok
          THEN /\ channel' = "open"
               /\ pc' = "connected"
               /\ pending' = pending
          ELSE /\ channel' = channel
               /\ pc' = "client_except"
               /\ pending' = Raising("Exception")
    /\ UNCHANGED <<session, response, chain_vars>>
    /\ UNCHANGED peer

\* async with ClientSession(read, write) (line 146)
ClientSession ==
    /\ pc = "connected"
    /\ session' = "open"
    /\ pc' = "in_session"
    /\ UNCHANGED <<channel, response, chain_vars, pending>>
    /\ UNCHANGED peer

\* An awaited session call outside the planner's try block: it answers,
\* or its exception leaves the ClientSession block.
Await(next_pc) ==
    \E outcome \in {"ok"} \cup AwaitFailures :
        IF outcome = "ok"
        THEN /\ pc' = next_pc
             /\ pending' = pending
        ELSE /\ pc' = "close_session"
             /\ pending' = Raising(outcome)

\* await session.initialize() (line 150)
Initialize ==
    /\ pc = "in_session"
    /\ Await("initialized")
    /\ UNCHANGED <<channel, session, response, chain_vars>>
    /\ UNCHANGED peer

\* await session.list_tools() and serialize_tools (lines 155-157)
ListTools ==
    /\ pc = "initialized"
    /\ Await("listed")
    /\ UNCHANGED <<channel, session, response, chain_vars>>
    /\ UNCHANGED peer

\* Faulty variant of GenerateContent: the planner is asked before the tools
\* are listed.
GenerateContent_BeforeCatalog ==
    /\ pc \in {"initialized", "listed"}
    /\ \/ /\ \E r \in PlannerResponses : response' = r
          /\ pc' = "responded"
          /\ pending' = pending
       \/ /\ response' = response
          /\ pc' = "close_session"
          /\ pending' = Returning(S_Error \o S_PlannerDown)
    /\ UNCHANGED <<channel, session, chain_vars>>
    /\ UNCHANGED peer

\* model.generate_content(...) (lines 222-251): the planner answers, or
\* the call raises and line 291 turns the exception into the return value.
GenerateContent ==
    /\ pc = "listed"
    /\ \/ /\ \E r \in PlannerResponses : response' = r
          /\ pc' = "responded"
          /\ pending' = pending
       \/ /\ response' = response
          /\ pc' = "close_session"
          /\ pending' = Returning(S_Error \o S_PlannerDown)
    /\ UNCHANGED <<channel, session, chain_vars>>
    /\ UNCHANGED peer

(***************************************************************************)
(* process_user_request: dispatching the planner's response (252-289).     *)
(***************************************************************************)
KeyChars(key) ==
    CASE key = "step_number" -> S_step_number
      [] key = "tool_name" -> S_tool_name
      [] key = "input" -> S_input_key

\* The members the f-string of line 268 reads, in the order it reads them.
EntryKeys == <<"step_number", "tool_name", "input">>

\* Line 268 for one element of the steps array.
FormatStep(step) ==
    S_StepPrefix \o ToStr(step.step_number) \o S_UseInfix \o step.tool_name
    \o S_InputInfix \o step.input

RECURSIVE FormatSteps(_)
FormatSteps(entries) ==
    IF entries = <<>> THEN <<>>
    ELSE <<FormatStep(Head(entries))>> \o FormatSteps(Tail(entries))

\* The first member line 268 does not find: (entry, key) positions, in the
\* order the loop meets them.
MissingKeys(entries) ==
    {<<i, k>> \in (1..Len(entries)) \X (1..Len(EntryKeys)) :
        EntryKeys[k] \notin entries[i].keys}

FirstMissingKey(entries) ==
    LET first == CHOOSE p \in MissingKeys(entries) :
                    \A q \in MissingKeys(entries) :
                        \/ p[1] < q[1]
                        \/ (p[1] = q[1] /\ p[2] <= q[2])
    IN  EntryKeys[first[2]]

Answer(value) == [chain |-> FALSE, text |-> value]
RunChain(tool_plan) == [chain |-> TRUE, text |-> tool_plan]

\* Faulty variant of DispatchJson: the steps are looked at before the
\* fallback_response.
DispatchJson_StepsFirst(response_json) ==
    IF "steps" \in response_json.keys /\ response_json.steps # <<>>
    THEN IF MissingKeys(response_json.steps) # {}
         THEN Answer(S_Error \o S_Quote
                     \o KeyChars(FirstMissingKey(response_json.steps))
                     \o S_Quote)
         ELSE RunChain(Join(FormatSteps(response_json.steps), S_Newline))
    ELSE IF /\ "fallback_response" \in response_json.keys
            /\ response_json.fallback_response # <<>>
    THEN Answer(response_json.fallback_response)
    ELSE Answer(S_NoLlmSteps)

\* Lines 254-278: a response json.loads accepts.
DispatchJson(response_json) ==
    IF /\ "fallback_response" \in response_json.keys
       /\ response_json.fallback_response # <<>>
    THEN Answer(response_json.fallback_response)
    ELSE IF "steps" \in response_json.keys /\ response_json.steps # <<>>
    THEN IF MissingKeys(response_json.steps) # {}
         \* KeyError, caught at line 291
         THEN Answer(S_Error \o S_Quote
                     \o KeyChars(FirstMissingKey(response_json.steps))
                     \o S_Quote)
         ELSE RunChain(Join(FormatSteps(response_json.steps), S_Newline))
    ELSE Answer(S_NoLlmSteps)

\* Lines 279-289: a response json.loads rejects.
DispatchText(response_text) ==
    IF StartsWith(response_text, S_NO_TOOLS_NEEDED)
    THEN Answer(Strip(RemoveAll(response_text, S_NO_TOOLS_NEEDED)))
    ELSE RunChain(response_text)

\* Lines 250-289.
Dispatch(r) ==
    IF r.format = "json" THEN DispatchJson(r) ELSE DispatchText(Strip(r.text))

\* Lines 250-289 and, when a chain is run, lines 62-81 of
\* execute_tool_chain up to its first step.
ParseResponse ==
    /\ pc = "responded"
    /\ LET d == Dispatch(response)
           parsed == IF d.chain THEN ParsePlan(d.text) ELSE <<>>
       IN  IF ~d.chain
           THEN /\ pending' = Returning(d.text)
                /\ pc' = "close_session"
                /\ UNCHANGED <<steps, idx>>
           ELSE IF parsed = <<>>
           THEN /\ pending' = Returning(S_NoToolSteps)
                /\ pc' = "close_session"
                /\ UNCHANGED <<steps, idx>>
           ELSE /\ steps' = SortSteps(parsed)
                /\ idx' = 1
                /\ pc' = "executing"
                /\ pending' = pending
    /\ UNCHANGED <<channel, session, response, results, final_result, calls>>
    /\ UNCHANGED peer

(***************************************************************************)
(* execute_tool_chain: one step of the loop (lines 83-128).                *)
(***************************************************************************)
\* Faulty variant of CallTool: the call is sent without waiting for the answer
\* to the call before it.
CallTool_NoAwait ==
    /\ pc \in {"executing", "awaiting"}
    /\ LET step == steps[idx]
           r == Resolve(step.input, results)
       IN  IF r.found
           THEN /\ calls' = Append(calls,
                                   [step |-> step.step, tool |-> step.tool,
                                    input |-> step.input, text |-> r.text,
                                    outcome |-> "sent", output |-> <<>>])
                /\ pc' = "awaiting"
                /\ pending' = pending
           ELSE /\ calls' = calls
                /\ pc' = "close_session"
                /\ pending' = Returning(r.text)
    /\ UNCHANGED <<channel, session, response, steps, idx, results,
                   final_result>>
    /\ UNCHANGED peer

\* Lines 84-117: the step's input is resolved and call_tool is sent, or
\* the chain returns the unresolved-reference error.
CallTool ==
    /\ pc = "executing"
    /\ LET step == steps[idx]
           r == Resolve(step.input, results)
       IN  IF r.found
           THEN /\ calls' = Append(calls,
                                   [step |-> step.step, tool |-> step.tool,
                                    input |-> step.input, text |-> r.text,
                                    outcome |-> "sent", output |-> <<>>])
                /\ pc' = "awaiting"
                /\ pending' = pending
           ELSE /\ calls' = calls
                /\ pc' = "close_session"
                /\ pending' = Returning(r.text)
    /\ UNCHANGED <<channel, session, response, steps, idx, results,
                   final_result>>
    /\ UNCHANGED peer

\* results[f"RESULT_{step_num}"] = result_text
Store(res, key, value) ==
    [k \in DOMAIN res \cup {key} |-> IF k = key THEN value ELSE res[k]]

\* What the awaited call_tool may do: answer with a text, answer with an
\* empty content list, raise, or be cancelled.
CallOutcomes ==
    {[outcome |-> "ok", output |-> o] : o \in ToolOutputs}
    \cup {[outcome |-> e, output |-> <<>>] :
            e \in {"Exception", "IndexError", "CancelledError"}}

\* Faulty variant of Succeeded: a failed call is taken for an answer.
Succeeded_Always(o) == TRUE

\* Lines 117-118: whether result.content[0].text is reached without an
\* exception.
Succeeded(o) == o.outcome = "ok"

\* Faulty variant of NextFinalResult: the first output is kept.
NextFinalResult_KeepFirst(previous, result_text) ==
    IF previous = None THEN result_text ELSE previous

\* Line 123: final_result = result_text
NextFinalResult(previous, result_text) == result_text

\* Lines 124-126: what the chain does with a failed call.  "except
\* Exception" turns the exception into the returned text; a CancelledError
\* is no Exception and leaves execute_tool_chain.
CallFailed(tool_name, exc) ==
    IF IsException(exc)
    THEN Returning(S_ErrorExecuting \o tool_name \o S_ColonSpace \o ExcText(exc))
    ELSE Raising(exc)

\* Faulty variant of ToolReturns: a call that failed is sent again.
ToolReturns_Retry ==
    /\ pc = "awaiting"
    /\ \E o \in CallOutcomes :
        LET step == steps[idx]
        IN  /\ calls' = [calls EXCEPT ![Len(calls)].outcome = o.outcome,
                                      ![Len(calls)].output = o.output]
            /\ IF Succeeded(o)
               THEN /\ results' = Store(results, ResultKey(step.step), o.output)
                    /\ final_result' = NextFinalResult(final_result, o.output)
                    /\ IF idx = Len(steps)
                       THEN /\ pending' = Returning(final_result')
                            /\ pc' = "close_session"
                            /\ idx' = idx
                       ELSE /\ pending' = pending
                            /\ pc' = "executing"
                            /\ idx' = idx + 1
               ELSE /\ UNCHANGED <<results, final_result, idx, pending>>
                    /\ pc' = "executing"
    /\ UNCHANGED <<channel, session, response, steps>>
    /\ UNCHANGED peer

\* Lines 117-128: the call answers and its text is stored, or it fails.
ToolReturns ==
    /\ pc = "awaiting"
    /\ \E o \in CallOutcomes :
        LET step == steps[idx]
        IN  /\ calls' = [calls EXCEPT ![Len(calls)].outcome = o.outcome,
                                      ![Len(calls)].output = o.output]
            /\ IF Succeeded(o)
               THEN /\ results' = Store(results, ResultKey(step.step), o.output)
                    /\ final_result' = NextFinalResult(final_result, o.output)
                    /\ IF idx = Len(steps)
                       THEN /\ pending' = Returning(final_result')
                            /\ pc' = "close_session"
                            /\ idx' = idx
                       ELSE /\ pending' = pending
                            /\ pc' = "executing"
                            /\ idx' = idx + 1
               ELSE /\ UNCHANGED <<results, final_result, idx>>
                    /\ pc' = "close_session"
                    /\ pending' = CallFailed(step.tool, o.outcome)
    /\ UNCHANGED <<channel, session, response, steps>>
    /\ UNCHANGED peer

(***************************************************************************)
(* process_user_request: leaving the session and the channel (295-312).    *)
(***************************************************************************)
\* The end of the ClientSession block.
CloseSession ==
    /\ pc = "close_session"
    /\ session' = "closed"
    /\ pc' = IF pending.kind = "raise" THEN "session_except"
             ELSE "close_channel"
    /\ UNCHANGED <<channel, response, chain_vars, pending>>
    /\ UNCHANGED peer

\* isinstance(e, asyncio.exceptions.TaskGroupError) (lines 303, 309): the
\* attribute lookup raises AttributeError when the module has no such name.
TaskGroupCheck(exc, if_group, otherwise) ==
    IF "TaskGroupError" \notin AsyncioExceptions THEN Raising("AttributeError")
    ELSE IF exc = "TaskGroupError" THEN Returning(if_group)
    ELSE Returning(otherwise)

\* The except clauses of lines 295-306.
SessionHandler(p) ==
    CASE p.exc = "CancelledError" -> Returning(S_Cancelled)
      [] p.exc = "TimeoutError" -> Returning(S_TimedOut)
      [] OTHER -> TaskGroupCheck(p.exc, S_SessionTaskGroup,
                                 S_SessionError \o p.value)

SessionExcept ==
    /\ pc = "session_except"
    /\ pending' = SessionHandler(pending)
    /\ pc' = "close_channel"
    /\ UNCHANGED <<channel, session, response, chain_vars>>
    /\ UNCHANGED peer

\* Faulty variant of CloseChannel: the channel is closed only when no exception is
\* in flight.
CloseChannel_NotOnRaise ==
    /\ pc = "close_channel"
    /\ channel' = IF pending.kind = "raise" THEN channel ELSE "closed"
    /\ pc' = IF pending.kind = "raise" /\ IsException(pending.exc)
             THEN "client_except" ELSE "done"
    /\ UNCHANGED <<session, response, chain_vars, pending>>
    /\ UNCHANGED peer

\* The end of the stdio_client block.
CloseChannel ==
    /\ pc = "close_channel"
    /\ channel' = "closed"
    /\ pc' = IF pending.kind = "raise" /\ IsException(pending.exc)
             THEN "client_except" ELSE "done"
    /\ UNCHANGED <<session, response, chain_vars, pending>>
    /\ UNCHANGED peer

\* The except clause of lines 307-312.
ClientHandler(p) ==
    TaskGroupCheck(p.exc, S_ConnectTaskGroup, S_ConnectError \o p.value)

ClientExcept ==
    /\ pc = "client_except"
    /\ pending' = ClientHandler(pending)
    /\ pc' = "done"
    /\ UNCHANGED <<channel, session, response, chain_vars>>
    /\ UNCHANGED peer

Next ==
    \/ StdioClient
    \/ ClientSession
    \/ Initialize
    \/ ListTools
    \/ GenerateContent
    \/ ParseResponse
    \/ CallTool
    \/ ToolReturns
    \/ CloseSession
    \/ SessionExcept
    \/ CloseChannel
    \/ ClientExcept

Spec == Init /\ [][Next]_vars

(***************************************************************************)
(* Two process_user_request calls on one event loop.  The variables above  *)
(* are the locals of the call that is running; peer holds the locals of    *)
(* the other one while it is suspended at an await.                        *)
(***************************************************************************)
\* The locals of the running call.
Locals ==
    [pc |-> pc, channel |-> channel, session |-> session,
     response |-> response, steps |-> steps, idx |-> idx,
     results |-> results, final_result |-> final_result, calls |-> calls,
     pending |-> pending]

\* The plans the planner writes when two requests are run together.
PairPlans ==
    {Join(<<StepLine(<<"1">>, <<"r","e","v">>, T_ab),
            StepLine(<<"2">>, <<"k","e","y">>, ResultKey(1))>>, S_Newline),
     StepLine(<<"2">>, <<"k","e","y">>, ResultKey(1))}

PairResponses == {TextResponse(t) : t \in PairPlans}

\* model.generate_content(...) (lines 222-251) of a request that is run
\* together with another one.
GenerateContentPair ==
    /\ pc = "listed"
    /\ \/ /\ \E r \in PairResponses : response' = r
          /\ pc' = "responded"
          /\ pending' = pending
       \/ /\ response' = response
          /\ pc' = "close_session"
          /\ pending' = Returning(S_Error \o S_PlannerDown)
    /\ UNCHANGED <<channel, session, chain_vars>>
    /\ UNCHANGED peer

\* Faulty variant of Switch: results is one dictionary for both calls.
Switch_SharedResults ==
    /\ peer # Locals
    /\ peer' = Locals
    /\ pc' = peer.pc
    /\ channel' = peer.channel
    /\ session' = peer.session
    /\ response' = peer.response
    /\ steps' = peer.steps
    /\ idx' = peer.idx
    /\ results' = results
    /\ final_result' = peer.final_result
    /\ calls' = peer.calls
    /\ pending' = peer.pending

\* An await hands control to the event loop, which resumes the other call:
\* the running call's locals are put aside and the other's are taken up.
Switch ==
    /\ peer # Locals
    /\ peer' = Locals
    /\ pc' = peer.pc
    /\ channel' = peer.channel
    /\ session' = peer.session
    /\ response' = peer.response
    /\ steps' = peer.steps
    /\ idx' = peer.idx
    /\ results' = peer.results
    /\ final_result' = peer.final_result
    /\ calls' = peer.calls
    /\ pending' = peer.pending

NextPair ==
    \/ StdioClient
    \/ ClientSession
    \/ Initialize
    \/ ListTools
    \/ GenerateContentPair
    \/ ParseResponse
    \/ CallTool
    \/ ToolReturns
    \/ CloseSession
    \/ SessionExcept
    \/ CloseChannel
    \/ ClientExcept
    \/ Switch

SpecPair == Init /\ [][NextPair]_vars

(***************************************************************************)
(* Properties of the orchestrator, one per claim.                          *)
(***************************************************************************)
\* The positions of process_user_request after its last call to the planner
\* or the tool host.
Unwinding ==
    {"close_session", "session_except", "close_channel", "client_except",
     "done"}

\* The planner's response has been received and dispatched.
Parsed == response # NoResponse /\ pc # "responded"

\* The chain was left without a call for the step at idx.
StoppedBeforeCall == pc \in Unwinding /\ idx >= 1 /\ Len(calls) = idx - 1

\* RESULT_<digits>, the reference token of the specification.
IsReference(input) ==
    /\ StartsWith(input, S_RESULT)
    /\ Len(input) > Len(S_RESULT)
    /\ \A i \in (Len(S_RESULT) + 1)..Len(input) : input[i] \in Digit

\* The step number a reference token names.
RefNumber(input) == ToInt(Drop(input, Len(S_RESULT)))

\* The calls before the k-th that answered for step number n.
Producers(n, k) ==
    {j \in 1..(k - 1) : calls[j].outcome = "ok" /\ calls[j].step = n}

\* The output stored for step number n when the k-th call is made.
StoredOutput(n, k) ==
    calls[CHOOSE j \in Producers(n, k) : \A i \in Producers(n, k) : i <= j].output

FailedCall(k) == calls[k].outcome \in {"Exception", "IndexError", "CancelledError"}

IsErrorText(value) == StartsWith(value, <<"E","r","r","o","r">>)

\* The lines of a line-oriented planner response.
ResponseLines == Split(response.text, "\n")

\* C1: a line-oriented plan with N lines of the STEP grammar gives N steps,
\* and the calls are issued in ascending step-number order whatever the
\* order of the lines: a call for a smaller step number is issued, and has
\* returned, before any call for a greater one.
C1_AscendingOrder ==
    /\ (Parsed /\ response.format = "text")
        => Len(steps)
            = Cardinality({k \in 1..Len(ResponseLines) :
                              ResponseLines[k] \in GrammarLines})
    /\ \A a, b \in 1..Len(calls) :
          calls[a].step < calls[b].step
            => (a < b /\ calls[a].outcome # "sent")

\* C1 witness: the plan lists step 2 before step 1, and step 1 is called
\* first.
C1_Witness ==
    /\ pc = "done"
    /\ response.format = "text"
    /\ Len(ResponseLines) = 2
    /\ \E t \in ToolNames :
          ResponseLines[1] = StepLine(<<"2">>, t, T_ab)
    /\ Len(calls) = 2
    /\ calls[1].step = 1
    /\ calls[2].step = 2

\* C2: when the call of a step fails, no later call is made, and the
\* request ends with an error text that is not the output of an earlier
\* step.
C2_HaltOnFirstFailure ==
    \A k \in 1..Len(calls) :
        FailedCall(k)
          => /\ k = Len(calls)
             /\ pc \in Unwinding
             /\ pc = "done"
                  => /\ pending.kind = "return"
                     /\ IsErrorText(pending.value)
                     /\ \A j \in 1..(k - 1) : pending.value # calls[j].output

\* C2 witness: step 1 answered, step 2 raised, the request is over.
C2_Witness ==
    /\ pc = "done"
    /\ Len(calls) = 2
    /\ calls[1].outcome = "ok"
    /\ calls[2].outcome = "Exception"

\* C3 (as claimed): a step whose input is RESULT_<digits>, when the step of
\* that number has produced an output, is called with that output (unwrapped
\* as lines 95-109 do), and the chain is not stopped in its place.
C3_ReferenceByNumber ==
    /\ \A k \in 1..Len(calls) :
          (IsReference(calls[k].input)
             /\ Producers(RefNumber(calls[k].input), k) # {})
            => calls[k].text
                 \in {StoredOutput(RefNumber(calls[k].input), k),
                      Unwrap(StoredOutput(RefNumber(calls[k].input), k))}
    /\ ~(/\ StoppedBeforeCall
         /\ IsReference(steps[idx].input)
         /\ Producers(RefNumber(steps[idx].input), idx) # {})

\* No step numbered as the reference of the step at position k has answered
\* before it.
Unresolved(k) ==
    /\ IsReference(steps[k].input)
    /\ Producers(RefNumber(steps[k].input), k) = {}

\* C4: a step whose input is RESULT_k, when no step numbered k has answered
\* before it, is never called; the chain stops there with the
\* unresolved-reference error and no later step is called.
C4_UnresolvedIsFatal ==
    /\ \A k \in 1..Len(calls) : ~Unresolved(k)
    /\ (pc \in Unwinding /\ idx >= 1 /\ Unresolved(idx))
        => /\ Len(calls) = idx - 1
           /\ pending = Returning(S_ReferencedResult \o steps[idx].input
                                  \o S_NotFound)

\* C4 witness: step 1 refers to step 2, which comes later; the request is
\* over and nothing was called.
C4_Witness ==
    /\ pc = "done"
    /\ Len(steps) = 2
    /\ steps[1].input = ResultKey(2)
    /\ steps[2].step = 2
    /\ calls = <<>>

\* The planner's response is a JSON object with a non-empty
\* fallback_response.
HasFallback ==
    /\ response.format = "json"
    /\ "fallback_response" \in response.keys
    /\ response.fallback_response # <<>>

\* C5: a structured response with a non-empty fallback_response is answered
\* with that text, and no call_tool is made, even when steps are given too.
C5_FallbackPrecedence ==
    HasFallback
      => /\ calls = <<>>
         /\ pc \notin {"executing", "awaiting"}
         /\ pc = "done" => pending = Returning(response.fallback_response)

\* C5 witness: a response with both a fallback_response and steps is
\* answered.
C5_Witness ==
    /\ pc = "done"
    /\ HasFallback
    /\ response.steps # <<>>

\* C6 (as claimed): a planner output whose trimmed text starts with
\* NO_TOOLS_NEEDED: is answered with the rest of the text after that prefix,
\* trimmed, and no call_tool is made.
C6_EscapeRemainder ==
    (/\ pc = "done"
     /\ response.format = "text"
     /\ StartsWith(Strip(response.text), S_NO_TOOLS_NEEDED))
      => /\ calls = <<>>
         /\ pending = Returning(Strip(Drop(Strip(response.text),
                                           Len(S_NO_TOOLS_NEEDED))))

\* The calls before the k-th whose output is stored under the key text.
Holders(key, k) ==
    {j \in 1..(k - 1) :
        calls[j].outcome = "ok" /\ ResultKey(calls[j].step) = key}

\* The value stored under the key when the k-th call is made.
StoredValue(key, k) ==
    calls[CHOOSE j \in Holders(key, k) : \A i \in Holders(key, k) : i <= j].output

\* What the stored value is to be resolved to: the text of the first item
\* of content that has one when the value is a JSON object with a content
\* list, the value itself otherwise.  Where an item that is no object comes
\* before that first item (a mistyped shape), either is accepted.
UnwrapTargets(stored) ==
    LET parsed == JsonLoads(stored)
        shaped == /\ StartsWith(stored, <<"{">>)
                  /\ parsed.ok
                  /\ HasKey(parsed.value, K_content)
                  /\ GetKey(parsed.value, K_content).t = "list"
        items == GetKey(parsed.value, K_content).items
        with_text == {i \in 1..Len(items) :
                         items[i].t = "obj" /\ HasKey(items[i], K_text)}
        first == CHOOSE i \in with_text : \A j \in with_text : i <= j
        text == GetKey(items[first], K_text).s
    IN  IF ~shaped THEN {stored}
        ELSE IF with_text = {} THEN {stored}
        ELSE IF \A j \in 1..(first - 1) : items[j].t = "obj" THEN {text}
        ELSE {stored, text}

ChainCompleted ==
    /\ steps # <<>>
    /\ Len(calls) = Len(steps)
    /\ \A k \in 1..Len(calls) : calls[k].outcome = "ok"

\* C8: a chain whose calls all answered returns the output of its last
\* call, which is the call of the greatest step number.
C8_LastStepResult ==
    (pc = "done" /\ ChainCompleted)
      => /\ pending = Returning(calls[Len(calls)].output)
         /\ \A k \in 1..Len(calls) : calls[k].step <= calls[Len(calls)].step

\* C8 witness: two steps answered different texts, the plan listing the
\* greater step number first.
C8_Witness ==
    /\ pc = "done"
    /\ ChainCompleted
    /\ Len(calls) = 2
    /\ calls[1].output # calls[2].output
    /\ response.format = "text"
    /\ \E t \in ToolNames : ResponseLines[1] = StepLine(<<"2">>, t, T_ab)
    /\ calls[1].step = 1

\* C9 (as claimed): process_user_request ends by returning a text; no
\* exception leaves it.
C9_NoExceptionEscapes ==
    pc = "done" => pending.kind = "return"

\* C10: when the request is over, the channel that was opened for it is
\* closed, and so is the session.
C10_ChannelClosed ==
    pc = "done"
      => /\ channel \in {"none", "closed"}
         /\ session \in {"none", "closed"}
         /\ channel = "none" => calls = <<>> /\ response = NoResponse

\* C10 witness: the request was cancelled while a call was awaited, and the
\* channel is closed.
C10_Witness ==
    /\ pc = "done"
    /\ channel = "closed"
    /\ calls # <<>>
    /\ calls[Len(calls)].outcome = "CancelledError"

\* C11 (as claimed): a step input that is no RESULT_<digits> token is sent
\* to the tool host as it is, and the chain is never stopped at such a step
\* with an unresolved-reference error, also when the input begins with
\* RESULT_.
C11_LiteralPassThrough ==
    /\ \A k \in 1..Len(calls) :
          ~IsReference(calls[k].input) => calls[k].text = calls[k].input
    /\ ~(StoppedBeforeCall /\ ~IsReference(steps[idx].input))

\* The planner's response is a JSON object with a non-empty steps array and
\* no fallback_response that is used.
HasStepArray ==
    /\ response.format = "json"
    /\ ~HasFallback
    /\ "steps" \in response.keys
    /\ response.steps # <<>>

\* The entry has the three members of a step.
WellFormed(entry) == entry.keys = {"step_number", "tool_name", "input"}

\* C12 (as claimed): a steps array that holds an entry with a member missing
\* next to well-formed entries with plain inputs does not end the request
\* with an error for that entry: the well-formed entries are called.
C12_MalformedEntrySkipped ==
    (/\ pc = "done"
     /\ HasStepArray
     /\ \E i \in 1..Len(response.steps) : ~WellFormed(response.steps[i])
     /\ \E i \in 1..Len(response.steps) : WellFormed(response.steps[i])
     /\ \A i \in 1..Len(response.steps) :
           WellFormed(response.steps[i]) => response.steps[i].input = T_ab)
      => /\ calls # <<>>
         /\ \A i \in 1..Len(response.steps) :
               ~WellFormed(response.steps[i])
                 => \A k \in 1..Len(EntryKeys) :
                       pending.value # S_Error \o S_Quote
                                        \o KeyChars(EntryKeys[k]) \o S_Quote

\* Two steps of the parsed plan carry the same step number.
HasDuplicates ==
    \E a, b \in 1..Len(steps) : a # b /\ steps[a].step = steps[b].step

\* C13 (as claimed): a plan in which two steps carry the same step number
\* is rejected before it is run: no call_tool is made for it.
C13_DuplicatesRejected ==
    HasDuplicates => calls = <<>>

\* The text is one a tool answers with when it has failed.
IsToolError(output) == StartsWith(output, S_ErrorCreating)

\* C14 (as claimed): a call that raises, a call the tool answers with an
\* error of its own, and a result without content each end the chain at that
\* step; the output is not stored and no later step is called.
C14_RemoteErrorFatal ==
    \A k \in 1..Len(calls) :
        (\/ FailedCall(k)
         \/ calls[k].outcome = "ok" /\ IsToolError(calls[k].output))
          => /\ k = Len(calls)
             /\ pc \in Unwinding
             /\ \A key \in DOMAIN results : results[key] # calls[k].output
                                           \/ calls[k].outcome # "ok"

\* The chain has returned an error text for the step at idx: its reference
\* was not found, or its call raised an exception the chain catches.
StepFailed ==
    /\ pc = "done"
    /\ idx >= 1
    /\ pending.kind = "return"
    /\ \/ StoppedBeforeCall
       \/ Len(calls) = idx /\ FailedCall(idx)

\* C15 (as claimed): the error text returned for a failed step names the
\* number of the step and its tool.
C15_ErrorNamesStepAndTool ==
    StepFailed
      => /\ Contains(pending.value, ToStr(steps[idx].step))
         /\ Contains(pending.value, steps[idx].tool)

\* C16 (as claimed): a steps array of well-formed entries, run without a
\* failure, gives one call per entry, with the entry's step number, tool
\* name and input.
C16_EntryPerStep ==
    (/\ pc = "done"
     /\ HasStepArray
     /\ \A i \in 1..Len(response.steps) : WellFormed(response.steps[i])
     /\ pending.kind = "return"
     /\ ~StoppedBeforeCall
     /\ \A k \in 1..Len(calls) : calls[k].outcome = "ok")
      => /\ Len(calls) = Len(response.steps)
         /\ \A k \in 1..Len(calls) :
               \E i \in 1..Len(response.steps) :
                  /\ response.steps[i].step_number = calls[k].step
                  /\ response.steps[i].tool_name = calls[k].tool
                  /\ response.steps[i].input = calls[k].input

\* The transitions the state order allows: the planner is asked only when
\* the tools have been listed, the tools are listed only after the session
\* was initialized, a call_tool is sent only by the chain of a dispatched
\* response, and nothing is asked once the request is on its way out.
OrderedStep ==
    /\ response' # response => pc = "listed"
    /\ pc' = "listed" => pc \in {"initialized", "listed"}
    /\ Len(calls') > Len(calls) => pc = "executing" /\ Parsed
    /\ pc \in Unwinding
         => /\ calls' = calls
            /\ response' = response
            /\ pc' \in Unwinding

\* C17: the planner is never asked before the catalog has been fetched, no
\* call_tool is sent before the planner's response has been received and
\* dispatched, and once an outcome is reached neither the planner nor the
\* tool host is asked again.
C17_StateOrder == [][OrderedStep]_vars

\* C17 witness: a request that went through every stage: one step was
\* called and answered, and its output was returned.
C17_Witness ==
    /\ pc = "done"
    /\ channel = "closed"
    /\ session = "closed"
    /\ Len(steps) = 1
    /\ Len(calls) = 1
    /\ calls[1].outcome = "ok"
    /\ pending = Returning(calls[1].output)

\* C18: only the last call can be waiting for its answer, and only while
\* the chain awaits it; every call before it has answered and its output is
\* stored, so that a step referring to the step before it is called with
\* that step's output.
C18_OneCallAtATime ==
    /\ pc = "awaiting" => (calls # <<>> /\ calls[Len(calls)].outcome = "sent")
    /\ \A k \in 1..Len(calls) :
          /\ calls[k].outcome = "sent" => (k = Len(calls) /\ pc = "awaiting")
          /\ k < Len(calls)
               => /\ calls[k].outcome = "ok"
                  /\ ResultKey(calls[k].step) \in DOMAIN results
          /\ (k > 1 /\ calls[k].input = ResultKey(calls[k - 1].step))
               => calls[k].text = Unwrap(calls[k - 1].output)

\* C18 witness: the call of step 2, which refers to step 1, is waiting for
\* its answer after step 1 has answered.
C18_Witness ==
    /\ pc = "awaiting"
    /\ Len(calls) = 2
    /\ calls[1].outcome = "ok"
    /\ calls[1].step = 1
    /\ calls[2].outcome = "sent"
    /\ calls[2].input = ResultKey(1)
    /\ calls[2].text = Unwrap(calls[1].output)

\* The dispatched response gives neither a fallback_response nor a step: a
\* JSON object without steps or with an empty steps array, or a text that
\* does not use the escape and has no line of the STEP grammar.
NothingToRun ==
    /\ Parsed
    /\ ~HasFallback
    /\ \/ /\ response.format = "json"
          /\ ("steps" \notin response.keys \/ response.steps = <<>>)
       \/ /\ response.format = "text"
          /\ ~StartsWith(Strip(response.text), S_NO_TOOLS_NEEDED)
          /\ \A k \in 1..Len(ResponseLines) :
                ResponseLines[k] \notin GrammarLines

\* The text reports that no valid steps were found.
IsNoValidSteps(value) ==
    /\ StartsWith(value, <<"N","o"," ","v","a","l","i","d">>)
    /\ Contains(value, <<"s","t","e","p","s">>)

\* C20: a response that gives neither a fallback_response nor a step ends
\* the request with a "no valid steps" text, and no call_tool is made.
C20_ZeroStepsIsError ==
    NothingToRun
      => /\ calls = <<>>
         /\ pc \in Unwinding
         /\ pending.kind = "return"
         /\ IsNoValidSteps(pending.value)

\* C20 witness: the planner wrote a text without a STEP line, and the
\* request is over.
C20_Witness ==
    /\ pc = "done"
    /\ response.format = "text"
    /\ response.text = <<"P","l","a","n",":">>
    /\ pending = Returning(S_NoToolSteps)

\* The calls of the sequence cs before the k-th whose output is stored under
\* the key the k-th call refers to.
OwnHolders(cs, k) ==
    {j \in 1..(k - 1) :
        cs[j].outcome = "ok" /\ ResultKey(cs[j].step) = cs[k].input}

\* Every call of cs that refers to a result was resolved to an output of an
\* earlier call of cs.
ResolvedFromOwn(cs) ==
    \A k \in 1..Len(cs) :
        StartsWith(cs[k].input, S_RESULT)
          => /\ OwnHolders(cs, k) # {}
             /\ cs[k].text
                  = Unwrap(cs[CHOOSE j \in OwnHolders(cs, k) :
                                 \A i \in OwnHolders(cs, k) : i <= j].output)

\* Every value of the store res is the output of a call of cs for the step
\* of its key.
StoreIsOwn(res, cs) ==
    \A key \in DOMAIN res :
        \E j \in 1..Len(cs) :
            /\ cs[j].outcome = "ok"
            /\ ResultKey(cs[j].step) = key
            /\ cs[j].output = res[key]

\* The only change to the suspended call's locals is its being resumed.
PeerUntouched ==
    peer' # peer => (peer' = Locals /\ Locals' = peer)

\* C19: of two requests run together, each resolves its references from
\* its own store only, each store holds only outputs of its own calls, and
\* no step of one request, failing or not, changes the locals of the other.
C19_RequestIsolation ==
    /\ [](/\ ResolvedFromOwn(calls)
          /\ ResolvedFromOwn(peer.calls)
          /\ StoreIsOwn(results, calls)
          /\ StoreIsOwn(peer.results, peer.calls))
    /\ [][PeerUntouched]_vars

\* C19 witness: one request holds an output under RESULT_1 while the other,
\* whose only step refers to RESULT_1, has ended with the
\* unresolved-reference error and without a call.
C19_Witness ==
    /\ pc = "awaiting"
    /\ ResultKey(1) \in DOMAIN results
    /\ peer.pc = "done"
    /\ peer.calls = <<>>
    /\ peer.pending
         = Returning(S_ReferencedResult \o ResultKey(1) \o S_NotFound)

\* How far a position is along process_user_request.
Stage(p) ==
    CASE p = "start" -> 0
      [] p = "connected" -> 1
      [] p = "in_session" -> 2
      [] p = "initialized" -> 3
      [] p = "listed" -> 4
      [] p = "responded" -> 5
      [] p \in {"executing", "awaiting"} -> 6
      [] p = "close_session" -> 7
      [] p = "session_except" -> 8
      [] p = "close_channel" -> 9
      [] p = "client_except" -> 10
      [] p = "done" -> 11

\* The k-th call is the call of the k-th step of the plan, and a call that
\* failed is the last one.
CallsFollowSteps ==
    /\ Len(calls) <= Len(steps)
    /\ \A k \in 1..Len(calls) :
          /\ calls[k].step = steps[k].step
          /\ calls[k].tool = steps[k].tool
          /\ calls[k].input = steps[k].input
          /\ FailedCall(k) => k = Len(calls)

\* The request never goes back: the planner, which is asked where the
\* request stands at "listed", is left behind for good once it was asked,
\* and its response is set once.
NeverBack ==
    /\ Stage(pc') >= Stage(pc)
    /\ pc = "listed" => pc' # "listed"
    /\ response' # response => response = NoResponse

\* C21: in one request the planner is asked at most once, each step of the
\* plan is called at most once, a call that failed is not sent again, and
\* there are never more calls than steps.
C21_SingleAttempt ==
    /\ []CallsFollowSteps
    /\ [][NeverBack]_vars

\* C21 witness: the call of the first of two steps came back without
\* content; the request is over with that one call.
C21_Witness ==
    /\ pc = "done"
    /\ Len(steps) = 2
    /\ Len(calls) = 1
    /\ calls[1].outcome = "IndexError"

\* C22 (as claimed): for a structured plan, every call_tool carries the
\* step number and the tool name of an element of the steps array, whatever
\* the inputs of the elements hold.
C22_NoStepInjection ==
    response.format = "json"
      => \A k \in 1..Len(calls) :
            \E i \in 1..Len(response.steps) :
               /\ WellFormed(response.steps[i])
               /\ response.steps[i].step_number = calls[k].step
               /\ response.steps[i].tool_name = calls[k].tool

====
